---- MODULE Spec2Model ----
(***************************************************************************)
(* Model of the BTC prediction dashboard: src/app.py (the batched reader   *)
(* behind st.cache_data, the UI script around it, signal_from_proba) and   *)
(* src/Function.py (the full-load reader load_predictions).                *)
(*                                                                         *)
(* Time is counted in seconds.  A stored row is a pair of an event_time_ts *)
(* cell and a proba_up percentage; the remaining columns carry no logic.   *)
(***************************************************************************)
EXTENDS Integers, Sequences, FiniteSets, TLC

\* ---------------------------------------------------------------- bounds
MaxRows == 3        \* rows in the table, over all its files
MaxFiles == 2       \* data files (record batches) of the table
MaxN == 2           \* largest N_ROWS tried
MaxClock == 40      \* the clock stops here
TickStep == 10      \* seconds per clock step
MaxRuns == 3        \* script runs of the session
MaxPct == 100       \* probabilities are percentages 0..MaxPct

\* ------------------------------------------------------ program constants
TTL == 30           \* @st.cache_data(ttl=30)
NaT == -1           \* what pd.to_datetime(errors="coerce") gives for no time
SecondsPerHour == 3600

VARIABLES
    N_ROWS, LOOKBACK_HOURS, PROBA_BUY, PROBA_SELL,   \* configuration (env)
    schema, files, now,                              \* the table, the clock
    cache,                                           \* st.cache_data entry
    loaded, pc, runs,                                \* the session's script
    tbl, existing, arrow_filter, idx, keep,          \* locals of the reader
    pdf, shown, err, signal,                         \* what the script holds
    scans, storedAt, served, cacheAtCall,            \* history
    full, fullOf, fullStatus,                        \* Function.py's reader
    proba,                                           \* a probability to label
    prev                                             \* what the last run showed

vars == <<N_ROWS, LOOKBACK_HOURS, PROBA_BUY, PROBA_SELL, schema, files, now,
          cache, loaded, pc, runs, tbl, existing, arrow_filter, idx, keep,
          pdf, shown, err, signal, scans, storedAt, served, cacheAtCall,
          full, fullOf, fullStatus, proba, prev>>

config == <<N_ROWS, LOOKBACK_HOURS, PROBA_BUY, PROBA_SELL, schema>>
locals == <<tbl, existing, arrow_filter, idx, keep>>
fpy == <<full, fullOf, fullStatus>>

\* ------------------------------------------------------------- sequences
Range(s) == {s[i] : i \in 1..Len(s)}

Min2(a, b) == IF a <= b THEN a ELSE b

RECURSIVE Flatten(_)
Flatten(fs) == IF fs = <<>> THEN <<>> ELSE Head(fs) \o Flatten(Tail(fs))

\* ------------------------------------------------------------- the table
\* An event_time_ts cell as stored: a timestamp, a string spelling a
\* timestamp, a string spelling none, or null.
Ts(n) == [kind |-> "ts", n |-> n]
Str(n) == [kind |-> "str", n |-> n]
BadStr == [kind |-> "bad", n |-> 0]
Null == [kind |-> "null", n |-> 0]

Stored(cell, p) == [et |-> cell, p |-> p]

RowPool == { Stored(Ts(1), 30), Stored(Ts(2), 60), Stored(Str(2), 45),
             Stored(BadStr, 50), Stored(Null, 40) }

\* The data files the inference job may append while the session runs.
NewFiles == { <<>>,
              <<Stored(Ts(1), 30)>>,
              <<Stored(Ts(2), 60), Stored(BadStr, 50)>>,
              <<Stored(Null, 40), Stored(Str(2), 45)>> }

RECURSIVE SeqsUpTo(_, _)
SeqsUpTo(S, n) ==
    IF n = 0 THEN {<<>>}
    ELSE {<<>>} \cup {<<x>> \o s : x \in S, s \in SeqsUpTo(S, n - 1)}

\* Every table of at most f files holding at most r rows together.
RECURSIVE Datasets(_, _)
Datasets(r, f) ==
    IF f = 0 THEN {<<>>}
    ELSE {<<>>} \cup
         UNION { {<<b>> \o rest : rest \in Datasets(r - Len(b), f - 1)}
                 : b \in SeqsUpTo(RowPool, r) }

FullSchema == <<"ingest_id", "proba_up", "event_time_ts", "symbol">>
NoProbaSchema == <<"event_time_ts", "symbol">>
NoTimeSchema == <<"symbol", "proba_up", "ts">>
Schemas == {FullSchema, NoProbaSchema, NoTimeSchema}

\* ------------------------------------------------------ pandas / pyarrow
\* One stored row as the scanner yields it: the projected columns only.
Cell(st, c) ==
    CASE c = "event_time_ts" -> st.et
      [] c = "proba_up" -> st.p
      [] c = "symbol" -> "BTCUSDT"
      [] OTHER -> "x"

ProjectRow(st, cols) == [c \in Range(cols) |-> Cell(st, c)]

\* The pushdown predicate ds.field("event_time_ts") >= cutoff: a null cell
\* compares to null and is filtered out.  No path reaches the scanner with
\* a predicate (see Lookback), so only the NoFilter branch is ever taken.
NoFilter == [set |-> FALSE, cutoff |-> 0]

PassesFilter(st, flt) ==
    \/ ~flt.set
    \/ /\ flt.set
       /\ st.et.kind = "ts"
       /\ st.et.n >= flt.cutoff

KeepsFilter(batch, flt) ==
    LET Pass(st) == PassesFilter(st, flt) IN SelectSeq(batch, Pass)

\* rb.to_pandas() of one record batch of scanner(columns, filter).
ToPandas(batch, cols, flt) ==
    LET b == KeepsFilter(batch, flt)
    IN [i \in 1..Len(b) |-> ProjectRow(b[i], cols)]

\* pd.to_datetime(x, errors="coerce", utc=True) on one cell.
ToDatetime(cell) ==
    CASE cell.kind = "ts" -> cell.n
      [] cell.kind = "str" -> cell.n
      [] OTHER -> NaT

\* The normalisation loop over ["event_time_ts", "scoring_time"].
Normalize(rows) ==
    [i \in 1..Len(rows) |->
        IF "event_time_ts" \in DOMAIN rows[i]
        THEN [rows[i] EXCEPT !["event_time_ts"] = ToDatetime(@)]
        ELSE rows[i]]

HasTime(row) == row["event_time_ts"] # NaT

\* dropna left out: every row is kept.
DropNa_KeepAll(rows) == rows

\* dropna(subset=["event_time_ts"])
DropNa(rows) == SelectSeq(rows, HasTime)

\* The sort with ascending=True.
Before_Ascending(a, b) == a["event_time_ts"] <= b["event_time_ts"]

\* sort_values("event_time_ts", ascending=False): the order a sorts before b.
Before(a, b) == a["event_time_ts"] >= b["event_time_ts"]

\* Every order sort_values may give (the default sort is not stable, so
\* rows with equal keys come in any order): pick a row no other precedes
\* strictly, then sort the rest.
RECURSIVE SortsOf(_, _)
SortsOf(rows, I) ==
    IF I = {} THEN {<<>>}
    ELSE UNION { {<<rows[i]>> \o r : r \in SortsOf(rows, I \ {i})}
                 : i \in {j \in I : \A k \in I : Before(rows[j], rows[k])} }

SortValues(rows) == SortsOf(rows, 1..Len(rows))

\* head(n + 1): an off-by-one cap.
HeadN_OffByOne(rows, n) == SubSeq(rows, 1, Min2(n + 1, Len(rows)))

\* head(n)
HeadN(rows, n) == SubSeq(rows, 1, Min2(n, Len(rows)))

\* pd.Timestamp.utcnow(): a timezone-aware timestamp.
UtcNow(t) == [t |-> t, tz |-> "UTC"]

\* Timestamp.tz_localize(zone): defined on naive timestamps only.
TzLocalize(ts, zone) ==
    IF ts.tz = "naive"
    THEN [ok |-> TRUE, t |-> ts.t, tz |-> zone]
    ELSE [ok |-> FALSE, t |-> ts.t, tz |-> ts.tz]

\* ----------------------------------------------------------- app.py core
wanted == <<"symbol", "interval", "event_time_ts", "proba_up", "pred_up",
            "model_run_id", "scoring_time">>

InSchema(c) == c \in Range(schema)

InWanted(c) == c \in {"symbol", "interval", "event_time_ts", "proba_up",
                      "pred_up", "model_run_id", "scoring_time"}

\* The intersection taken in the schema's order instead of wanted's.
Existing_SchemaOrder == SelectSeq(schema, InWanted)

\* existing = [c for c in wanted if c in dataset.schema.names]
Existing == SelectSeq(wanted, InSchema)

\* The BUY comparison made strict.
signal_from_proba_Strict(p) ==
    IF p > PROBA_BUY THEN "BUY"
    ELSE IF p <= PROBA_SELL THEN "SELL"
    ELSE "HOLD"

signal_from_proba(p) ==
    IF p >= PROBA_BUY THEN "BUY"
    ELSE IF p <= PROBA_SELL THEN "SELL"
    ELSE "HOLD"

\* The st.cache_data entry of the one (argument-less) call.
NoEntry == [present |-> FALSE, value |-> <<>>, expires |-> 0]

\* The entry still served at the instant it expires.
CacheFresh_Inclusive(c, t) == c.present /\ t <= c.expires

CacheFresh(c, t) == c.present /\ t < c.expires

\* An empty frame treated as nothing to store.
CacheStore_SkipEmpty(value, t) ==
    IF value = <<>>
    THEN [present |-> FALSE, value |-> <<>>, expires |-> 0]
    ELSE [present |-> TRUE, value |-> value, expires |-> t + TTL]

CacheStore(value, t) == [present |-> TRUE, value |-> value, expires |-> t + TTL]

NoError == [kind |-> "none", columns |-> <<>>]

\* ------------------------------------------------------------ the script
\* The exception handled as a result: the frame folded so far is stored
\* and returned.
Raise_Caching(kind, cols) ==
    /\ err' = [kind |-> kind, columns |-> cols]
    /\ shown' = "error"
    /\ pc' = "idle"
    /\ cache' = [present |-> TRUE, value |-> keep, expires |-> now + TTL]
    /\ storedAt' = now
    /\ pdf' = keep
    /\ signal' = signal

\* An exception leaving load_predictions_batched: st.cache_data stores
\* nothing, the UI's except branch shows the error and stops the script.
Raise(kind, cols) ==
    /\ err' = [kind |-> kind, columns |-> cols]
    /\ shown' = "error"
    /\ pc' = "idle"
    /\ UNCHANGED <<cache, pdf, signal, storedAt>>

\* "Load predictions" pressed: the script reruns with loaded = True.
ClickLoad ==
    /\ pc = "idle" /\ ~loaded /\ runs < MaxRuns
    /\ loaded' = TRUE
    /\ runs' = runs + 1
    /\ pc' = "call"
    /\ prev' = shown
    /\ pdf' = <<>> /\ shown' = "none" /\ err' = NoError /\ signal' = ""
    /\ UNCHANGED <<config, files, now, cache, locals, scans, storedAt, served,
                   cacheAtCall, fpy, proba>>

\* Any later rerun of the script in the session (loaded stays True).
Rerun ==
    /\ pc = "idle" /\ loaded /\ runs < MaxRuns
    /\ runs' = runs + 1
    /\ pc' = "call"
    /\ prev' = shown
    /\ pdf' = <<>> /\ shown' = "none" /\ err' = NoError /\ signal' = ""
    /\ UNCHANGED <<config, files, now, cache, loaded, locals, scans, storedAt,
                   served, cacheAtCall, fpy, proba>>

\* The call of the cached function: a fresh entry is returned as is, an
\* absent or expired one runs the function body.
CacheLookup ==
    /\ pc = "call"
    /\ cacheAtCall' = cache
    /\ IF CacheFresh(cache, now)
       THEN /\ pdf' = cache.value
            /\ served' = "hit"
            /\ pc' = "show"
       ELSE /\ pdf' = pdf
            /\ served' = "miss"
            /\ pc' = "token"
    /\ UNCHANGED <<config, files, now, cache, loaded, runs, locals, shown, err,
                   signal, scans, storedAt, fpy, proba, prev>>

\* token = get_storage_token()
GetToken ==
    /\ pc = "token"
    /\ \/ /\ pc' = "open"
          /\ UNCHANGED <<cache, pdf, shown, err, signal, storedAt>>
       \/ Raise("CredentialUnavailableError", <<>>)
    /\ UNCHANGED <<config, files, now, loaded, runs, locals, scans, served,
                   cacheAtCall, fpy, proba, prev>>

\* dt = DeltaTable(...); dataset = dt.to_pyarrow_dataset(): the table as it
\* is now.
OpenTable ==
    /\ pc = "open"
    /\ \/ /\ tbl' = files
          /\ pc' = "project"
          /\ UNCHANGED <<cache, pdf, shown, err, signal, storedAt>>
       \/ /\ Raise("TableNotFoundError", <<>>)
          /\ tbl' = tbl
    /\ UNCHANGED <<config, files, now, loaded, runs, existing, arrow_filter, idx,
                   keep, scans, served, cacheAtCall, fpy, proba, prev>>

\* The projection and the check of the ordering column.
Project ==
    /\ pc = "project"
    /\ existing' = Existing
    /\ IF "event_time_ts" \notin Range(Existing)
       THEN Raise("ValueError", schema)
       ELSE /\ pc' = "lookback"
            /\ UNCHANGED <<cache, pdf, shown, err, signal, storedAt>>
    /\ UNCHANGED <<config, files, now, loaded, runs, tbl, arrow_filter, idx, keep,
                   scans, served, cacheAtCall, fpy, proba, prev>>

\* The optional lookback predicate.  The cutoff is computed outside the
\* try block, from utcnow().tz_localize("UTC").
Lookback ==
    /\ pc = "lookback"
    /\ IF LOOKBACK_HOURS > 0
       THEN LET loc == TzLocalize(UtcNow(now), "UTC")
            IN IF loc.ok
               THEN /\ arrow_filter' =
                         [set |-> TRUE,
                          cutoff |-> loc.t - LOOKBACK_HOURS * SecondsPerHour]
                    /\ pc' = "scanner"
                    /\ UNCHANGED <<cache, pdf, shown, err, signal, storedAt>>
               ELSE /\ Raise("TypeError", <<>>)
                    /\ arrow_filter' = NoFilter
       ELSE /\ arrow_filter' = NoFilter
            /\ pc' = "scanner"
            /\ UNCHANGED <<cache, pdf, shown, err, signal, storedAt>>
    /\ UNCHANGED <<config, files, now, loaded, runs, tbl, existing, idx, keep,
                   scans, served, cacheAtCall, fpy, proba, prev>>

\* scanner = dataset.scanner(...); keep = pd.DataFrame(columns=existing)
StartScan ==
    /\ pc = "scanner"
    /\ keep' = <<>>
    /\ idx' = 1
    /\ scans' = scans + 1
    /\ pc' = "loop"
    /\ UNCHANGED <<config, files, now, cache, loaded, runs, tbl, existing,
                   arrow_filter, pdf, shown, err, signal, storedAt, served,
                   cacheAtCall, fpy, proba, prev>>

\* The chunk of one record batch after normalisation and dropna.
Chunk(batch) == DropNa(Normalize(ToPandas(batch, existing, arrow_filter)))

\* keep after one chunk: pd.concat, sort_values descending, head(N_ROWS).
Folded(k, chunk) == {HeadN(s, N_ROWS) : s \in SortValues(k \o chunk)}

\* One iteration of "for rb in scanner.to_batches()".
ScanBatch ==
    /\ pc = "loop" /\ idx <= Len(tbl)
    /\ \/ /\ idx' = idx + 1
          /\ IF Chunk(tbl[idx]) = <<>>
             THEN keep' = keep
             ELSE keep' \in Folded(keep, Chunk(tbl[idx]))
          /\ pc' = "loop"
          /\ UNCHANGED <<cache, pdf, shown, err, signal, storedAt>>
       \/ /\ Raise("ArrowIOError", <<>>)
          /\ UNCHANGED <<idx, keep>>
    /\ UNCHANGED <<config, files, now, loaded, runs, tbl, existing, arrow_filter,
                   scans, served, cacheAtCall, fpy, proba, prev>>

\* return keep.reset_index(drop=True): the value is stored for TTL seconds
\* and handed to the script.
Return ==
    /\ pc = "loop" /\ idx > Len(tbl)
    /\ cache' = CacheStore(keep, now)
    /\ storedAt' = now
    /\ pdf' = keep
    /\ pc' = "show"
    /\ UNCHANGED <<config, files, now, loaded, runs, locals, shown, err, signal,
                   scans, served, cacheAtCall, fpy, proba, prev>>

\* The rest of the script: the empty-result warning, or the metrics of the
\* latest row.
Show ==
    /\ pc = "show"
    /\ IF pdf = <<>>
       THEN /\ shown' = "warning"
            /\ signal' = signal
       ELSE /\ shown' = "metrics"
            /\ signal' = IF "proba_up" \in DOMAIN pdf[1]
                          THEN signal_from_proba(pdf[1]["proba_up"])
                          ELSE "N/A"
    /\ pc' = "idle"
    /\ UNCHANGED <<config, files, now, cache, loaded, runs, locals, pdf, err,
                   scans, storedAt, served, cacheAtCall, fpy, proba, prev>>

\* ------------------------------------------------------------ Function.py
\* load_predictions on a table: every frame it may return, or a KeyError
\* when a non-empty frame lacks event_time_ts (dropna on a missing column).
FullFrame(table) ==
    LET all == Flatten(table)
    IN [i \in 1..Len(all) |-> ProjectRow(all[i], schema)]

FullRaises(table) ==
    /\ FullFrame(table) # <<>>
    /\ "event_time_ts" \notin Range(Existing)

ProjectCols(rows, cols) ==
    [i \in 1..Len(rows) |-> [c \in Range(cols) |-> rows[i][c]]]

load_predictions(table) ==
    LET pdf0 == FullFrame(table)
    IN IF pdf0 = <<>> THEN {pdf0}
       ELSE {HeadN(s, N_ROWS) :
                s \in SortValues(DropNa(ProjectCols(Normalize(pdf0), Existing)))}

\* One run of Function.py's script up to the frame it holds; nothing there
\* catches an exception of the reader.
FunctionPyLoad ==
    /\ pc = "idle" /\ shown # "none" /\ fullStatus = "none"
    /\ fullOf' = files
    /\ \/ /\ ~FullRaises(files)
          /\ full' \in load_predictions(files)
          /\ fullStatus' = "ok"
       \/ /\ full' = <<>>        \* token, table or KeyError: no frame
          /\ fullStatus' = "error"
    /\ UNCHANGED <<config, files, now, cache, loaded, pc, runs, locals, pdf,
                   shown, err, signal, scans, storedAt, served, cacheAtCall,
                   proba, prev>>

\* ----------------------------------------------------------- environment
\* Time passes between script runs and while the table is scanned (time
\* spent in the earlier steps of a fetch shows the same way).
Tick ==
    /\ pc \in {"idle", "loop"}
    /\ now + TickStep <= MaxClock
    /\ now' = now + TickStep
    /\ UNCHANGED <<config, files, cache, loaded, pc, runs, locals, pdf, shown,
                   err, signal, scans, storedAt, served, cacheAtCall, fpy, proba, prev>>

\* The inference job appends one data file to the table.  A fetch reads
\* the table as it is when it opens it, so an append during a script run is
\* the same as one just before or just after it.
AppendFile ==
    /\ pc = "idle"
    /\ Len(files) < MaxFiles
    /\ \E b \in NewFiles : files' = Append(files, b)
    /\ UNCHANGED <<config, now, cache, loaded, pc, runs, locals, pdf, shown,
                   err, signal, scans, storedAt, served, cacheAtCall, fpy, proba, prev>>

\* pdf["proba_up"].apply(signal_from_proba) on one value.
Classify ==
    /\ pc = "classify"
    /\ signal' = signal_from_proba(proba)
    /\ pc' = "labelled"
    /\ UNCHANGED <<config, files, now, cache, loaded, runs, locals, pdf, shown,
                   err, scans, storedAt, served, cacheAtCall, fpy, proba, prev>>

\* --------------------------------------------------------- specifications
Fresh ==
    /\ now = 0
    /\ cache = NoEntry
    /\ loaded = FALSE /\ runs = 0
    /\ tbl = <<>> /\ existing = <<>> /\ arrow_filter = NoFilter
    /\ idx = 1 /\ keep = <<>>
    /\ pdf = <<>> /\ shown = "none" /\ err = NoError /\ signal = ""
    /\ scans = 0 /\ storedAt = 0 /\ served = "none" /\ cacheAtCall = NoEntry
    /\ full = <<>> /\ fullOf = <<>> /\ fullStatus = "none"
    /\ prev = "none"

\* The session over time: the table grows, the clock runs, the script is
\* rerun.
Init ==
    /\ Fresh
    /\ N_ROWS \in 1..MaxN
    /\ LOOKBACK_HOURS \in {0, 24}
    /\ PROBA_BUY = 60 /\ PROBA_SELL = 40
    /\ schema \in Schemas
    /\ files = <<>>
    /\ pc = "idle"
    /\ proba = 0

Next ==
    \/ ClickLoad \/ Rerun \/ CacheLookup \/ GetToken \/ OpenTable \/ Project
    \/ Lookback \/ StartScan \/ ScanBatch \/ Return \/ Show
    \/ Tick \/ AppendFile

Spec == Init /\ [][Next]_vars

\* One load of every table within the bounds, by both readers, under the
\* full schema and no lookback; the other configurations (a fetch that
\* fails before it scans, a schema without proba_up) on the one-file tables.
InitLoad ==
    /\ Fresh
    /\ N_ROWS \in 1..MaxN
    /\ LOOKBACK_HOURS \in {0, 24}
    /\ PROBA_BUY = 60 /\ PROBA_SELL = 40
    /\ schema \in Schemas
    /\ IF LOOKBACK_HOURS = 0 /\ schema = FullSchema
       THEN files \in Datasets(MaxRows, MaxFiles)
       ELSE files \in Datasets(MaxRows, 1)
    /\ pc = "idle"
    /\ proba = 0

NextLoad ==
    \/ ClickLoad \/ CacheLookup \/ GetToken \/ OpenTable \/ Project
    \/ Lookback \/ StartScan \/ ScanBatch \/ Return \/ Show
    \/ FunctionPyLoad

SpecLoad == InitLoad /\ [][NextLoad]_vars

\* signal_from_proba on every percentage, under every threshold pair.
InitSignal ==
    /\ Fresh
    /\ N_ROWS = 1 /\ LOOKBACK_HOURS = 0
    /\ PROBA_BUY \in {30, 40, 50, 60}
    /\ PROBA_SELL \in {30, 40, 50, 60}
    /\ schema = FullSchema
    /\ files = <<>>
    /\ pc = "classify"
    /\ proba \in 0..MaxPct

NextSignal == Classify

SpecSignal == InitSignal /\ [][NextSignal]_vars

\* ------------------------------------------------------------ properties
IsDescending(rows) ==
    \A i \in 1..Len(rows) : \A j \in i..Len(rows) :
        rows[i]["event_time_ts"] >= rows[j]["event_time_ts"]

\* A stored row whose event_time_ts holds a time.
Parsable(st) == st.et.kind \in {"ts", "str"}

StoredRows(table) == Flatten(table)

ParsableIdx(table) ==
    {i \in 1..Len(StoredRows(table)) : Parsable(StoredRows(table)[i])}

TimesOf(table) == {StoredRows(table)[i].et.n : i \in ParsableIdx(table)}

CountAt(table, v) ==
    Cardinality({i \in ParsableIdx(table) : StoredRows(table)[i].et.n = v})

CountNewer(table, v) ==
    Cardinality({i \in ParsableIdx(table) : StoredRows(table)[i].et.n > v})

CountIn(rows, v) ==
    Cardinality({i \in 1..Len(rows) : rows[i]["event_time_ts"] = v})

Max2(a, b) == IF a >= b THEN a ELSE b

\* rows hold exactly the n newest times of the table, as a multiset.
IsNewest(rows, table, n) ==
    /\ \A i \in 1..Len(rows) : rows[i]["event_time_ts"] \in TimesOf(table)
    /\ \A v \in TimesOf(table) :
          CountIn(rows, v) =
              Min2(CountAt(table, v), Max2(0, n - CountNewer(table, v)))

Times(rows) == [i \in 1..Len(rows) |-> rows[i]["event_time_ts"]]

\* The batched fetch of this run returned a frame.
FetchReturned ==
    /\ served = "miss"
    /\ \/ pc = "show"
       \/ pc = "idle" /\ shown \in {"warning", "metrics"}

\* C1: for every N_ROWS >= 1 and every stream of batches, after each batch
\* is folded in, and in the returned snapshot, the running set holds at most
\* N_ROWS rows, ordered by event_time_ts descending.
C1_Theorem ==
    /\ Len(keep) <= N_ROWS /\ IsDescending(keep)
    /\ Len(pdf) <= N_ROWS /\ IsDescending(pdf)
    /\ Len(cache.value) <= N_ROWS /\ IsDescending(cache.value)

\* C1's case: two batches folded, more rows with a time than the cap.
C1_Witness ==
    /\ pc = "loop" /\ idx = 3
    /\ Cardinality(ParsableIdx(tbl)) > N_ROWS
    /\ Len(keep) = N_ROWS

\* C2: with no lookback, the returned snapshot has min(N_ROWS, rows with a
\* parsable time) rows, holding the N_ROWS newest times of the table, the
\* same times as load_predictions returns for that table, whatever the
\* split into batches.
C2_Theorem ==
    (FetchReturned /\ LOOKBACK_HOURS = 0) =>
        /\ Len(pdf) = Min2(N_ROWS, Cardinality(ParsableIdx(tbl)))
        /\ IsNewest(pdf, tbl, N_ROWS)
        /\ (fullStatus = "ok" /\ fullOf = tbl) => Times(full) = Times(pdf)

\* C2's case: three rows with a time over two batches, the newer ones in
\* the second, a cap below three, and both readers done.
C2_Witness ==
    /\ FetchReturned /\ LOOKBACK_HOURS = 0
    /\ fullStatus = "ok" /\ fullOf = tbl
    /\ Len(tbl) = 2 /\ Len(tbl[1]) = 1 /\ Len(tbl[2]) = 2
    /\ Cardinality(ParsableIdx(tbl)) = 3
    /\ tbl[1][1].et.n < tbl[2][1].et.n
    /\ Len(pdf) = N_ROWS

\* C3 as claimed: with a lookback configured, a fetch that gets its token,
\* opens the table and finds the ordering column completes, and returns no
\* row older than now minus the lookback.
C3_Claim ==
    (/\ LOOKBACK_HOURS > 0
     /\ served = "miss"
     /\ pc = "idle" /\ shown # "none"
     /\ err.kind \notin {"CredentialUnavailableError", "TableNotFoundError",
                          "ValueError", "ArrowIOError"}) =>
        /\ shown # "error"
        /\ \A i \in 1..Len(pdf) :
              pdf[i]["event_time_ts"] >= now - LOOKBACK_HOURS * SecondsPerHour

\* C4: every row of a snapshot returned by either reader has a non-null
\* event_time_ts, which is the time its stored cell spells: rows with a
\* null or unparsable cell are dropped, never given a default time.
FromParsable(row, table) ==
    \E i \in ParsableIdx(table) :
        /\ row["event_time_ts"] = StoredRows(table)[i].et.n
        /\ "proba_up" \in DOMAIN row => row["proba_up"] = StoredRows(table)[i].p

NoNullTime(rows, table) ==
    \A i \in 1..Len(rows) :
        /\ "event_time_ts" \in DOMAIN rows[i]
        /\ rows[i]["event_time_ts"] # NaT
        /\ FromParsable(rows[i], table)

C4_Theorem ==
    /\ pc = "loop" => NoNullTime(keep, tbl)
    /\ NoNullTime(pdf, tbl)
    /\ NoNullTime(cache.value, tbl)
    /\ NoNullTime(full, fullOf)

\* C4's case: a table mixing rows with and without a time, read by both.
C4_Witness ==
    /\ FetchReturned /\ fullStatus = "ok"
    /\ pdf # <<>> /\ full # <<>>
    /\ \E i \in 1..Len(StoredRows(tbl)) : StoredRows(tbl)[i].et.kind = "bad"
    /\ \E i \in 1..Len(StoredRows(tbl)) : StoredRows(tbl)[i].et.kind = "null"

\* The fetch got past its token and the opening of the table.
PastOpen == pc \in {"lookback", "scanner", "loop", "show"}

PosIn(sup, x) == CHOOSE k \in 1..Len(sup) : sup[k] = x

\* sub lists members of sup (which has no duplicates) in sup's order.
IsOrderedSubseq(sub, sup) ==
    /\ \A i \in 1..Len(sub) : sub[i] \in Range(sup)
    /\ \A i \in 1..Len(sub) : \A j \in 1..Len(sub) :
          i < j => PosIn(sup, sub[i]) < PosIn(sup, sub[j])

\* C8: without event_time_ts in the schema the fetch fails with an error
\* naming the available columns, before any batch is scanned and without a
\* snapshot; with it, the projected columns are the wanted columns that the
\* schema has, in the order of the wanted list.
C8_Theorem ==
    /\ "event_time_ts" \notin Range(schema) =>
          /\ ~PastOpen
          /\ scans = 0 /\ pdf = <<>> /\ ~cache.present
          /\ shown \in {"none", "error"}
          /\ (pc = "idle" /\ shown = "error"
               /\ err.kind \notin {"CredentialUnavailableError",
                                    "TableNotFoundError"}) =>
                 /\ err.kind = "ValueError"
                 /\ err.columns = schema
    /\ ("event_time_ts" \in Range(schema) /\ served = "miss" /\ PastOpen) =>
          /\ Range(existing) = Range(wanted) \cap Range(schema)
          /\ IsOrderedSubseq(existing, wanted)

\* C8's case: the fetch of a table without event_time_ts has failed.
C8_Witness ==
    /\ "event_time_ts" \notin Range(schema)
    /\ tbl # <<>>
    /\ shown = "error" /\ err.kind = "ValueError"

\* C9: with PROBA_SELL < PROBA_BUY every probability gets exactly one label:
\* BUY exactly from PROBA_BUY up, SELL exactly up to PROBA_SELL, HOLD in
\* between; with 60 and 40, 60 is BUY, 40 is SELL, 41 and 59 are HOLD.
C9_Theorem ==
    (pc = "labelled" /\ PROBA_SELL < PROBA_BUY) =>
        /\ signal \in {"BUY", "SELL", "HOLD"}
        /\ signal = "BUY" <=> proba >= PROBA_BUY
        /\ signal = "SELL" <=> proba <= PROBA_SELL
        /\ signal = "HOLD" <=> (PROBA_SELL < proba /\ proba < PROBA_BUY)
        /\ (PROBA_BUY = 60 /\ PROBA_SELL = 40) =>
              /\ proba = 60 => signal = "BUY"
              /\ proba = 40 => signal = "SELL"
              /\ proba \in {41, 59} => signal = "HOLD"

\* C9's case: a boundary probability labelled under the default thresholds.
C9_Witness ==
    /\ pc = "labelled" /\ PROBA_BUY = 60 /\ PROBA_SELL = 40
    /\ proba = 59 /\ signal = "HOLD"

\* C5, the entry: a stored entry holds the frame its fetch returned and
\* expires TTL seconds after it was stored.
C5_Entry ==
    cache.present => cache.expires = storedAt + TTL

\* C5: after a fetch stored its result at storedAt, a call before
\* storedAt + TTL returns the stored value, leaves the entry alone and
\* scans nothing; a call at or after storedAt + TTL (or with nothing
\* stored) runs the fetch, whose result replaces the entry as a whole.
C5_Theorem ==
    /\ []C5_Entry
    /\ [][(pc = "call" /\ pc' # "call") =>
            IF cache.present /\ now < storedAt + TTL
            THEN /\ pdf' = cache.value
                 /\ cache' = cache
                 /\ scans' = scans
                 /\ pc' = "show"
            ELSE /\ pc' = "token"
                 /\ cache' = cache]_vars
    /\ [][(pc = "show" /\ served = "hit") => (scans' = scans /\ cache' = cache)]_vars
    /\ [][(pc = "loop" /\ pc' = "show") =>
            /\ cache' = [present |-> TRUE, value |-> keep, expires |-> now + TTL]
            /\ storedAt' = now
            /\ pdf' = keep]_vars
    /\ [][cache' # cache => (pc = "loop" /\ pc' = "show")]_vars

\* C5's case: a call served from the cache at the last instant before the
\* entry expires, although the table has grown since the fetch.
C5_Witness ==
    /\ pc = "show" /\ served = "hit"
    /\ now = storedAt + TTL - TickStep
    /\ Len(files) > Len(tbl)
    /\ pdf = cache.value /\ pdf # <<>>

\* C7: a failing fetch stores nothing and leaves the cache as the call
\* found it, hands no frame (so no partly folded one) to the script, and the
\* next call runs the fetch again.
C7_Theorem ==
    /\ [](shown = "error" => (cache = cacheAtCall /\ pdf = <<>>))
    /\ [][(shown # "error" /\ shown' = "error") =>
            (cache' = cache /\ storedAt' = storedAt /\ pdf' = <<>>)]_vars
    /\ [][(pc = "call" /\ prev = "error" /\ pc' # "call") =>
            (pc' = "token" /\ served' = "miss")]_vars

\* C7's case: a scan fails after a batch was folded, with an expired entry
\* of an earlier fetch in the cache.
C7_Witness ==
    /\ shown = "error" /\ err.kind = "ArrowIOError"
    /\ keep # <<>>
    /\ cache.present /\ cache.value # keep

====
